---- MODULE Spec2Model ----
(***************************************************************************)
(* A model of signalk-victron-ble's plugin.py: the per-kind field          *)
(* transformers, SignalKScanner.callback with its output stream, and the   *)
(* monitor/main process that owns the scanning session.                    *)
(*                                                                         *)
(* Numbers are decimal fixed point in thousandths (12.6 V is 12600), so    *)
(* the unit conversions are computed, not assumed: x / 100 is x \div 100,  *)
(* x * y is (x * y) \div 1000 and + 273.15 is + 273150.  The sample        *)
(* readings are chosen so that every conversion is exact.                  *)
(* A dotted SignalK path is the sequence of its segments, so f"{p}.{k}"    *)
(* is p \o k.                                                              *)
(***************************************************************************)
EXTENDS Integers, Sequences, FiniteSets, TLC

(***************************************************************************)
(* Bound of the program specification: frames delivered to the callback.   *)
(***************************************************************************)
MaxFrames == 2

(***************************************************************************)
(* Values of a reading's field and of an emitted PathValue: None, a        *)
(* number, a string, or a member of one of the library's enums.            *)
(***************************************************************************)
None == [t |-> "none", n |-> 0, s |-> ""]

Num(x) == [t |-> "num", n |-> x, s |-> ""]

Str(x) == [t |-> "str", n |-> 0, s |-> x]

En(x) == [t |-> "enum", n |-> 0, s |-> x]

Opt(S) == {None} \cup {Num(x) : x \in S}

OptEn(S) == {None} \cup {En(x) : x \in S}

\* enum.Enum.name.lower() of the enum members the readings below use
LowerOf ==
  [x \in {"BULK", "ABSORPTION", "NO_ERROR", "NO_INPUT_POWER", "INVERTING", "OFF"} |->
     CASE x = "BULK" -> "bulk"
       [] x = "ABSORPTION" -> "absorption"
       [] x = "NO_ERROR" -> "no_error"
       [] x = "NO_INPUT_POWER" -> "no_input_power"
       [] x = "INVERTING" -> "inverting"
       [] x = "OFF" -> "off"]

AuxModes == {"STARTER_VOLTAGE", "MIDPOINT_VOLTAGE", "TEMPERATURE", "DISABLED"}

LoadMeterTypes ==
  {"GENERIC_LOAD", "ELECTRIC_DRIVE", "FRIDGE", "WATER_PUMP", "BILGE_PUMP",
   "DC_SYSTEM", "WATER_HEATER"}

ChargerMeterTypes ==
  {"WIND_CHARGER", "SHAFT_GENERATOR", "FUEL_CELL", "WATER_GENERATOR",
   "DC_DC_CHARGER", "AC_CHARGER", "GENERIC_SOURCE"}

MeterTypes ==
  LoadMeterTypes \cup ChargerMeterTypes \cup {"SOLAR_CHARGER", "ALTERNATOR", "INVERTER"}

(***************************************************************************)
(* The module-level helpers.                                               *)
(***************************************************************************)
\* data is the dict in insertion order: a sequence of [key, value]
transformer(prefix, data) ==
  LET kept == SelectSeq(data, LAMBDA kv : kv.value # None)
  IN  [i \in 1..Len(kept) |-> [path |-> prefix \o kept[i].key, value |-> kept[i].value]]

KV(k, v) == [key |-> k, value |-> v]

tempK(tempC) == IF tempC = None THEN None ELSE Num(tempC.n + 273150)

power(voltage, current) ==
  IF voltage = None \/ current = None THEN None
  ELSE Num((voltage.n * current.n) \div 1000)

\* faulty variant of percentage: the division by 100 left out
percentageNoScale(percent) == percent

percentage(percent) == IF percent = None THEN None ELSE Num(percent.n \div 100)

coulomb(ah) == IF ah = None THEN None ELSE Num(ah.n * 3600)

joule(wh) == IF wh = None THEN None ELSE Num(wh.n * 3600)

seconds(minutes) == IF minutes = None THEN None ELSE Num(minutes.n * 60)

lower_name(value) == IF value = None THEN None ELSE Str(LowerOf[value.s])

\* Python truth value of ConfiguredDevice.secondary_battery (None and "" are false)
Truthy(v) == v # None /\ v # Str("")

(***************************************************************************)
(* The per-kind transform functions of SignalKScanner.  data is the typed  *)
(* reading: a record of what its getters return.                           *)
(***************************************************************************)
ChargerPhase(prefix, data, current, voltage) ==
  transformer(prefix,
    << KV(<<"chargingMode">>, lower_name(data.charge_state)),
       KV(<<"current">>, current),
       KV(<<"temperature">>, tempK(data.temperature)),
       KV(<<"voltage">>, voltage) >>)

transform_ac_charger_data(bl_device, cfg_device, data, id_) ==
  LET values1 == ChargerPhase(<<"electrical", "chargers", id_ \o "_1">>, data,
                              data.output_current1, data.output_voltage1)
      values2 == IF data.output_voltage2 # None
                 THEN values1 \o ChargerPhase(<<"electrical", "chargers", id_ \o "_2">>, data,
                                              data.output_current2, data.output_voltage2)
                 ELSE values1
  IN  IF data.output_voltage3 # None
      THEN values2 \o ChargerPhase(<<"electrical", "chargers", id_ \o "_3">>, data,
                                   data.output_current3, data.output_voltage3)
      ELSE values2

transform_battery_sense_data(bl_device, cfg_device, data, id_) ==
  transformer(<<"electrical", "batteries", id_>>,
    << KV(<<"temperature">>, tempK(data.temperature)),
       KV(<<"voltage">>, data.voltage) >>)

\* faulty variant of AuxChannel: the starter-voltage branch left out
AuxNoSecondary(values, cfg_device, data, id_) ==
  IF data.aux_mode = En("TEMPERATURE")
  THEN values \o transformer(<<"electrical", "batteries", id_>>,
                   << KV(<<"temperature">>, tempK(data.temperature)) >>)
  ELSE values

\* faulty variant of AuxChannel: elif written as if, with the temperature
\* block also run in starter-voltage mode
AuxBothBranches(values, cfg_device, data, id_) ==
  LET withStarter ==
        IF data.aux_mode = En("STARTER_VOLTAGE") /\ Truthy(cfg_device.secondary_battery)
        THEN Append(values,
               [path  |-> <<"electrical", "batteries", cfg_device.secondary_battery.s, "voltage">>,
                value |-> data.starter_voltage])
        ELSE values
  IN  IF data.aux_mode \in {En("STARTER_VOLTAGE"), En("TEMPERATURE")}
      THEN withStarter \o transformer(<<"electrical", "batteries", id_>>,
                            << KV(<<"temperature">>, tempK(data.temperature)) >>)
      ELSE withStarter

\* the auxiliary-input branch of transform_battery_data, repeated line for
\* line in transform_dc_energy_meter_data
AuxChannel(values, cfg_device, data, id_) ==
  IF data.aux_mode = En("STARTER_VOLTAGE")
  THEN IF Truthy(cfg_device.secondary_battery)
       THEN Append(values,
              [path  |-> <<"electrical", "batteries", cfg_device.secondary_battery.s, "voltage">>,
               value |-> data.starter_voltage])
       ELSE values
  ELSE IF data.aux_mode = En("TEMPERATURE")
  THEN values \o transformer(<<"electrical", "batteries", id_>>,
                   << KV(<<"temperature">>, tempK(data.temperature)) >>)
  ELSE values

\* the dict literal of transform_battery_data, in its insertion order
BatteryFields(data) ==
  << KV(<<"capacity", "dischargeSinceFull">>, coulomb(data.consumed_ah)),
     KV(<<"capacity", "stateOfCharge">>, percentage(data.soc)),
     KV(<<"capacity", "timeRemaining">>, seconds(data.remaining_mins)),
     KV(<<"current">>, data.current),
     KV(<<"power">>, power(data.voltage, data.current)),
     KV(<<"voltage">>, data.voltage) >>

transform_battery_data(bl_device, cfg_device, data, id_) ==
  AuxChannel(transformer(<<"electrical", "batteries", id_>>, BatteryFields(data)),
             cfg_device, data, id_)

transform_dcdc_converter_data(bl_device, cfg_device, data, id_) ==
  transformer(<<"electrical", "converters", id_>>,
    << KV(<<"chargerError">>, lower_name(data.charger_error)),
       KV(<<"chargerOffReason">>, lower_name(data.off_reason)),
       KV(<<"chargingMode">>, lower_name(data.charge_state)),
       KV(<<"input", "voltage">>, data.input_voltage),
       KV(<<"output", "voltage">>, data.output_voltage) >>)

\* faulty variant of MeterPrefix: ALTERNATOR listed among the charger types
MeterPrefixAlternatorAsCharger(meter_type, id_) ==
  IF meter_type \in {En(m) : m \in LoadMeterTypes}
  THEN <<"electrical", "dcload", id_>>
  ELSE IF meter_type = En("SOLAR_CHARGER")
  THEN <<"electrical", "solar", id_>>
  ELSE IF meter_type \in {En(m) : m \in ChargerMeterTypes \cup {"ALTERNATOR"}}
  THEN <<"electrical", "chargers", id_>>
  ELSE IF meter_type = En("INVERTER")
  THEN <<"electrical", "inverters", id_, "dc">>
  ELSE <<"electrical", "batteries", id_>>

\* the if/elif chain that picks the prefix from the meter type
MeterPrefix(meter_type, id_) ==
  IF meter_type \in {En(m) : m \in LoadMeterTypes}
  THEN <<"electrical", "dcload", id_>>
  ELSE IF meter_type = En("SOLAR_CHARGER")
  THEN <<"electrical", "solar", id_>>
  ELSE IF meter_type \in {En(m) : m \in ChargerMeterTypes}
  THEN <<"electrical", "chargers", id_>>
  ELSE IF meter_type = En("ALTERNATOR")
  THEN <<"electrical", "alternators", id_>>
  ELSE IF meter_type = En("INVERTER")
  THEN <<"electrical", "inverters", id_, "dc">>
  ELSE <<"electrical", "batteries", id_>>

transform_dc_energy_meter_data(bl_device, cfg_device, data, id_) ==
  LET prefix == MeterPrefix(data.meter_type, id_)
      values == transformer(prefix,
                  << KV(<<"current">>, data.current),
                     KV(<<"power">>, power(data.voltage, data.current)),
                     KV(<<"voltage">>, data.voltage) >>)
  IN  AuxChannel(values, cfg_device, data, id_)

transform_inverter_data(bl_device, cfg_device, data, id_) ==
  transformer(<<"electrical", "inverters", id_>>,
    << KV(<<"ac", "apparentPower">>, data.ac_apparent_power),
       KV(<<"ac", "current">>, data.ac_current),
       KV(<<"ac", "lineNeutralVoltage">>, data.ac_voltage),
       KV(<<"dc", "voltage">>, data.battery_voltage),
       KV(<<"inverterMode">>, lower_name(data.device_state)) >>)

transform_lynx_smart_bms_data(bl_device, cfg_device, data, id_) ==
  transformer(<<"electrical", "batteries", id_>>,
    << KV(<<"capacity", "dischargeSinceFull">>, coulomb(data.consumed_ah)),
       KV(<<"capacity", "stateOfCharge">>, percentage(data.soc)),
       KV(<<"capacity", "timeRemaining">>, seconds(data.remaining_mins)),
       KV(<<"current">>, data.current),
       KV(<<"power">>, power(data.voltage, data.current)),
       KV(<<"temperature">>, tempK(data.battery_temperature)),
       KV(<<"voltage">>, data.voltage) >>)

transform_orion_xs_data(bl_device, cfg_device, data, id_) ==
  transformer(<<"electrical", "converters", id_>>,
    << KV(<<"chargingMode">>, lower_name(data.charge_state)),
       KV(<<"chargerError">>, lower_name(data.charger_error)),
       KV(<<"chargerOffReason">>, lower_name(data.off_reason)),
       KV(<<"input", "voltage">>, data.input_voltage),
       KV(<<"input", "current">>, data.input_current),
       KV(<<"output", "voltage">>, data.output_voltage),
       KV(<<"output", "current">>, data.output_current) >>)

transform_smart_lithium_data(bl_device, cfg_device, data, id_) ==
  transformer(<<"electrical", "batteries", id_>>,
    << KV(<<"voltage">>, data.battery_voltage),
       KV(<<"temperature">>, tempK(data.battery_temperature)) >>)

transform_solar_charger_data(bl_device, cfg_device, data, id_) ==
  transformer(<<"electrical", "solar", id_>>,
    << KV(<<"chargingMode">>, lower_name(data.charge_state)),
       KV(<<"current">>, data.battery_charging_current),
       KV(<<"loadCurrent">>, data.external_device_load),
       KV(<<"panelPower">>, data.solar_power),
       KV(<<"voltage">>, data.battery_voltage),
       KV(<<"yieldToday">>, joule(data.yield_today)) >>)

transform_ve_bus_data(bl_device, cfg_device, data, id_) ==
  transformer(<<"electrical", "inverters", id_>>,
    << KV(<<"ac", "apparentPower">>, data.ac_out_power),
       KV(<<"dc", "current">>, data.battery_current),
       KV(<<"dc", "temperature">>, tempK(data.battery_temperature)),
       KV(<<"dc", "voltage">>, data.battery_voltage),
       KV(<<"inverterMode">>, lower_name(data.device_state)) >>)

(***************************************************************************)
(* Readings: per data class, the record of what its getters return.  Every *)
(* getter may return None.  LynxSmartBMSData has no get_aux_mode: the      *)
(* aux_mode field of its reading stands for the auxiliary mode the design  *)
(* attributes to that kind, and transform_lynx_smart_bms_data never reads  *)
(* it.                                                                     *)
(***************************************************************************)
Volts == Opt({12600})

Amps == Opt({0, -3200})

Celsius == Opt({25000})

States == OptEn({"BULK"})

Readings(kind) ==
  CASE kind = "AcChargerData" ->
         [kind : {kind}, charge_state : States, temperature : Celsius,
          output_current1 : Opt({15000}), output_voltage1 : Opt({14400}),
          output_current2 : Opt({5000}), output_voltage2 : Opt({14200}),
          output_current3 : Opt({2000}), output_voltage3 : Opt({13800})]
    [] kind = "BatteryMonitorData" ->
         [kind : {kind}, consumed_ah : Opt({10000}), soc : Opt({87500}),
          remaining_mins : Opt({240000}), current : Amps, voltage : Volts,
          aux_mode : {En(m) : m \in AuxModes}, starter_voltage : Opt({12100}),
          temperature : Celsius]
    [] kind = "BatterySenseData" ->
         [kind : {kind}, temperature : Celsius, voltage : Volts]
    [] kind = "DcDcConverterData" ->
         [kind : {kind}, charger_error : OptEn({"NO_ERROR"}),
          off_reason : OptEn({"NO_INPUT_POWER"}), charge_state : States,
          input_voltage : Volts, output_voltage : Opt({13800})]
    [] kind = "DcEnergyMeterData" ->
         [kind : {kind}, meter_type : OptEn(MeterTypes), current : Amps, voltage : Volts,
          aux_mode : {En(m) : m \in AuxModes}, starter_voltage : Opt({12100}),
          temperature : Celsius]
    [] kind = "InverterData" ->
         [kind : {kind}, ac_apparent_power : Opt({350000}), ac_current : Opt({1500}),
          ac_voltage : Opt({230000}), battery_voltage : Volts,
          device_state : OptEn({"INVERTING"})]
    [] kind = "LynxSmartBMSData" ->
         [kind : {kind}, consumed_ah : Opt({10000}), soc : Opt({87500}),
          remaining_mins : Opt({240000}), current : Amps, voltage : Volts,
          battery_temperature : Celsius, aux_mode : {En(m) : m \in AuxModes}]
    [] kind = "OrionXSData" ->
         [kind : {kind}, charge_state : States, charger_error : OptEn({"NO_ERROR"}),
          off_reason : OptEn({"NO_INPUT_POWER"}), input_voltage : Volts,
          input_current : Opt({8000}), output_voltage : Opt({13800}),
          output_current : Opt({7000})]
    [] kind = "SmartLithiumData" ->
         [kind : {kind}, battery_voltage : Volts, battery_temperature : Celsius]
    [] kind = "SolarChargerData" ->
         [kind : {kind}, charge_state : States, battery_charging_current : Opt({4000}),
          external_device_load : Opt({0}), solar_power : Opt({60000}),
          battery_voltage : Volts, yield_today : Opt({120000})]
    [] kind = "VEBusData" ->
         [kind : {kind}, ac_out_power : Opt({350000}), battery_current : Amps,
          battery_temperature : Celsius, battery_voltage : Volts,
          device_state : OptEn({"OFF"})]

\* the keys of the transformers dict of callback, in insertion order
TransformerKinds ==
  << "AcChargerData", "BatteryMonitorData", "BatterySenseData", "DcDcConverterData",
     "DcEnergyMeterData", "InverterData", "LynxSmartBMSData", "OrionXSData",
     "SmartLithiumData", "SolarChargerData", "VEBusData" >>

HandledKinds == {TransformerKinds[i] : i \in 1..Len(TransformerKinds)}

\* the transformers dict: data class -> transform function
Transform(kind, bl_device, cfg_device, data, id_) ==
  CASE kind = "AcChargerData" -> transform_ac_charger_data(bl_device, cfg_device, data, id_)
    [] kind = "BatteryMonitorData" -> transform_battery_data(bl_device, cfg_device, data, id_)
    [] kind = "BatterySenseData" -> transform_battery_sense_data(bl_device, cfg_device, data, id_)
    [] kind = "DcDcConverterData" -> transform_dcdc_converter_data(bl_device, cfg_device, data, id_)
    [] kind = "DcEnergyMeterData" -> transform_dc_energy_meter_data(bl_device, cfg_device, data, id_)
    [] kind = "InverterData" -> transform_inverter_data(bl_device, cfg_device, data, id_)
    [] kind = "LynxSmartBMSData" -> transform_lynx_smart_bms_data(bl_device, cfg_device, data, id_)
    [] kind = "OrionXSData" -> transform_orion_xs_data(bl_device, cfg_device, data, id_)
    [] kind = "SmartLithiumData" -> transform_smart_lithium_data(bl_device, cfg_device, data, id_)
    [] kind = "SolarChargerData" -> transform_solar_charger_data(bl_device, cfg_device, data, id_)
    [] kind = "VEBusData" -> transform_ve_bus_data(bl_device, cfg_device, data, id_)

(***************************************************************************)
(* ConfiguredDevice values the transform functions are applied to: with a  *)
(* secondary battery, without one (None, and the empty string a blank      *)
(* configuration field gives), and with its own id as secondary battery.   *)
(***************************************************************************)
ConfiguredDevice(id, mac, key, secondary) ==
  [id |-> id, mac |-> mac, advertisement_key |-> key, secondary_battery |-> secondary]

CfgDevices ==
  { ConfiguredDevice("house", "AA:01", "K1", Str("starter")),
    ConfiguredDevice("bow", "aa:02", "K2", None),
    ConfiguredDevice("aft", "aa:03", "K3", Str("")),
    ConfiguredDevice("loop", "aa:04", "K4", Str("loop")) }

(***************************************************************************)
(* The program: main() reads the configuration, monitor() starts one       *)
(* scanning session, and the session calls callback once per frame.        *)
(***************************************************************************)
VARIABLES
  pc,             \* where monitor() is: "start" (await scanner.start()),
                  \* "wait" (await asyncio.Event().wait()) or "exited"
  exit_cause,     \* why the process exited: "", "exception" or "signal"
  known_devices,  \* Scanner._known_devices: address -> device class, "" when absent
  buffer,         \* lines printed to sys.stdout and not flushed yet
  stdout,         \* lines the reader of standard output has received
  result,         \* how the last callback ended: "", "returned" or "raised"
  now,            \* frames delivered so far; the clock utcnow() reads
  delivered,      \* history: the frames delivered to callback, in arrival order
  t_cfg,          \* the ConfiguredDevice a transform function is applied to
  t_data,         \* the reading it is applied to
  t_values,       \* what it returned
  t_done          \* whether it has been applied

vars ==
  << pc, exit_cause, known_devices, buffer, stdout, result, now, delivered,
     t_cfg, t_data, t_values, t_done >>

progVars == << pc, exit_cause, known_devices, buffer, stdout, result, now, delivered >>

transformVars == << t_cfg, t_data, t_values, t_done >>

\* str.lower() on the transport addresses in use
Lower(address) == IF address = "AA:01" THEN "aa:01" ELSE address

\* the "devices" list of the JSON document main() reads from standard input
ConfigDevices ==
  << [mac |-> "AA:01", id |-> "house", key |-> "K01", secondary_battery |-> Str("starter")],
     [mac |-> "aa:02", id |-> "sense", key |-> "K02", secondary_battery |-> None],
     [mac |-> "aa:03", id |-> "shore", key |-> "K03", secondary_battery |-> None],
     [mac |-> "aa:04", id |-> "dcdc", key |-> "K04", secondary_battery |-> None],
     [mac |-> "aa:05", id |-> "shunt", key |-> "K05", secondary_battery |-> Str("engine")],
     [mac |-> "aa:06", id |-> "inv", key |-> "K06", secondary_battery |-> None],
     [mac |-> "aa:07", id |-> "lynx", key |-> "K07", secondary_battery |-> Str("starter")],
     [mac |-> "aa:08", id |-> "orion", key |-> "K08", secondary_battery |-> None],
     [mac |-> "aa:09", id |-> "lifepo", key |-> "K09", secondary_battery |-> None],
     [mac |-> "aa:10", id |-> "mppt", key |-> "K10", secondary_battery |-> None],
     [mac |-> "aa:11", id |-> "multi", key |-> "K11", secondary_battery |-> None],
     [mac |-> "aa:12", id |-> "bp", key |-> "K12", secondary_battery |-> None],
     [mac |-> "aa:13", id |-> "other", key |-> "K13", secondary_battery |-> None] >>

\* the devices dict main() builds: lowercased mac -> ConfiguredDevice
devices ==
  [a \in {Lower(ConfigDevices[i].mac) : i \in 1..Len(ConfigDevices)} |->
     LET i == CHOOSE j \in 1..Len(ConfigDevices) :
                /\ Lower(ConfigDevices[j].mac) = a
                /\ \A k \in (j + 1)..Len(ConfigDevices) : Lower(ConfigDevices[k].mac) # a
     IN  ConfiguredDevice(ConfigDevices[i].id, ConfigDevices[i].mac,
                          ConfigDevices[i].key, ConfigDevices[i].secondary_battery)]

\* device classes victron_ble can detect; the last has no entry in transformers
LibraryKinds == HandledKinds \cup {"SmartBatteryProtectData"}

(***************************************************************************)
(* The devices in radio range: the address the transport reports and the   *)
(* model its advertisements carry.  "aa:13" is a Victron product the       *)
(* library does not know; "zz:99" is not in the configuration.             *)
(***************************************************************************)
Nearby ==
  { [address |-> "AA:01", model |-> "BatteryMonitorData"],
    [address |-> "aa:01", model |-> "BatteryMonitorData"],
    [address |-> "aa:02", model |-> "BatterySenseData"],
    [address |-> "aa:03", model |-> "AcChargerData"],
    [address |-> "aa:04", model |-> "DcDcConverterData"],
    [address |-> "aa:05", model |-> "DcEnergyMeterData"],
    [address |-> "aa:06", model |-> "InverterData"],
    [address |-> "aa:07", model |-> "LynxSmartBMSData"],
    [address |-> "aa:08", model |-> "OrionXSData"],
    [address |-> "aa:09", model |-> "SmartLithiumData"],
    [address |-> "aa:10", model |-> "SolarChargerData"],
    [address |-> "aa:11", model |-> "VEBusData"],
    [address |-> "aa:12", model |-> "SmartBatteryProtectData"],
    [address |-> "aa:13", model |-> "Unknown"],
    [address |-> "zz:99", model |-> "BatteryMonitorData"] }

Addresses == {Lower(d.address) : d \in Nearby}

\* the readings the frames carry: every field absent, or every field present
AllAbsent(r) ==
  \A f \in DOMAIN r \ {"kind", "aux_mode", "meter_type"} : r[f] = None

AllPresent(r) ==
  \A f \in DOMAIN r \ {"kind", "aux_mode", "meter_type"} : r[f] # None /\ r[f] # Num(0)

Payloads(model) ==
  IF model \in HandledKinds
  THEN { r \in Readings(model) :
           /\ AllAbsent(r) \/ AllPresent(r)
           /\ "aux_mode" \in DOMAIN r => r.aux_mode = En("STARTER_VOLTAGE")
           /\ "meter_type" \in DOMAIN r => r.meter_type = En("SOLAR_CHARGER") }
  ELSE { [kind |-> model] }

\* a frame: the BLEDevice and the raw advertisement (its model discriminator,
\* whether it is malformed or undecryptable, and the reading it encodes)
Frames ==
  UNION { { [bl_device |-> [address |-> d.address],
             raw_data |-> [model |-> d.model, malformed |-> m, payload |-> p]] :
            m \in BOOLEAN, p \in Payloads(d.model) } : d \in Nearby }

\* SignalKScanner.load_key: the key, or "" for AdvertisementKeyMissingError
load_key(address) ==
  IF address \in DOMAIN devices THEN devices[address].advertisement_key ELSE ""

\* victron_ble's detect_device_type: the device class, or "" for no match
detect_device_type(raw_data) ==
  IF raw_data.model \in LibraryKinds THEN raw_data.model ELSE ""

\* victron_ble's Scanner.get_device: the cached device class of the address,
\* or the key looked up and the class detected and cached
get_device(known, bl_device, raw_data) ==
  LET address == Lower(bl_device.address)
  IN  IF known[address] # ""
      THEN [raised |-> "", known |-> known, device |-> known[address]]
      ELSE IF load_key(address) = ""
      THEN [raised |-> "AdvertisementKeyMissingError", known |-> known, device |-> ""]
      ELSE IF detect_device_type(raw_data) = ""
      THEN [raised |-> "UnknownDeviceError", known |-> known, device |-> ""]
      ELSE [raised |-> "",
            known |-> [known EXCEPT ![address] = detect_device_type(raw_data)],
            device |-> detect_device_type(raw_data)]

\* victron_ble's Device.parse: the typed reading, or "" when it raises
parse(device, raw_data) ==
  IF raw_data.malformed THEN [kind |-> ""] ELSE raw_data.payload

prepare_signalk_delta(bl_device, values, utcnow) ==
  [updates |->
     << [source |-> [label |-> "Victron", type |-> "Bluetooth", src |-> bl_device.address],
         timestamp |-> [utc |-> utcnow, suffix |-> "Z"],
         values |-> values] >>]

\* faulty variant of Emit: sys.stdout.flush() left out
EmitNoFlush(bl_device, raw_data, device, utcnow) ==
  LET data == parse(device, raw_data)
      configured_device == devices[Lower(bl_device.address)]
  IN  IF data.kind = "" THEN [printed |-> <<>>, flush |-> FALSE, result |-> "raised"]
      ELSE IF data.kind \in HandledKinds
      THEN [printed |->
              << prepare_signalk_delta(bl_device,
                   Transform(data.kind, bl_device, configured_device, data,
                             configured_device.id), utcnow) >>,
            flush |-> FALSE, result |-> "returned"]
      ELSE [printed |-> <<>>, flush |-> FALSE, result |-> "returned"]

\* the body of callback after get_device returned a device: what it prints,
\* whether it flushes, and how it ends.  device.parse is called outside the
\* try statement, so when it raises the exception leaves callback ("raised")
\* and goes to the scanning session that called it.
Emit(bl_device, raw_data, device, utcnow) ==
  LET data == parse(device, raw_data)
      configured_device == devices[Lower(bl_device.address)]
  IN  IF data.kind = "" THEN [printed |-> <<>>, flush |-> FALSE, result |-> "raised"]
      ELSE IF data.kind \in HandledKinds
      THEN [printed |->
              << prepare_signalk_delta(bl_device,
                   Transform(data.kind, bl_device, configured_device, data,
                             configured_device.id), utcnow) >>,
            flush |-> TRUE, result |-> "returned"]
      ELSE [printed |-> <<>>, flush |-> FALSE, result |-> "returned"]

\* SignalKScanner.callback, whole: get_device and its two handlers, parse,
\* the dispatch over transformers, print and flush
callback(frame) ==
  LET got == get_device(known_devices, frame.bl_device, frame.raw_data)
      out == Emit(frame.bl_device, frame.raw_data, got.device, now + 1)
  IN  IF got.raised # ""
      THEN /\ result' = "returned"
           /\ UNCHANGED << known_devices, buffer, stdout >>
      ELSE /\ known_devices' = got.known
           /\ result' = out.result
           /\ IF out.flush
              THEN stdout' = stdout \o buffer \o out.printed /\ buffer' = <<>>
              ELSE buffer' = buffer \o out.printed /\ UNCHANGED stdout

Init ==
  /\ pc = "start"
  /\ exit_cause = ""
  /\ known_devices = [a \in Addresses |-> ""]
  /\ buffer = <<>>
  /\ stdout = <<>>
  /\ result = ""
  /\ now = 0
  /\ delivered = <<>>
  /\ t_cfg = ConfiguredDevice("", "", "", None)
  /\ t_data = [kind |-> ""]
  /\ t_values = <<>>
  /\ t_done = FALSE

\* monitor(): await scanner.start() returns
StartOk ==
  /\ pc = "start"
  /\ pc' = "wait"
  /\ UNCHANGED << exit_cause, known_devices, buffer, stdout, result, now, delivered >>
  /\ UNCHANGED transformVars

\* monitor(): await scanner.start() raises; nothing in monitor() or main()
\* catches it, so asyncio.run() re-raises and the process exits
StartFails ==
  /\ pc = "start"
  /\ pc' = "exited"
  /\ exit_cause' = "exception"
  /\ UNCHANGED << known_devices, buffer, stdout, result, now, delivered >>
  /\ UNCHANGED transformVars

\* the scanning session delivers one frame to callback
Deliver ==
  /\ pc = "wait"
  /\ now < MaxFrames
  /\ \E frame \in Frames :
       /\ callback(frame)
       /\ delivered' = Append(delivered, frame)
  /\ now' = now + 1
  /\ UNCHANGED << pc, exit_cause >>
  /\ UNCHANGED transformVars

\* the process is stopped from outside (a signal)
Shutdown ==
  /\ pc # "exited"
  /\ pc' = "exited"
  /\ exit_cause' = "signal"
  /\ UNCHANGED << known_devices, buffer, stdout, result, now, delivered >>
  /\ UNCHANGED transformVars

Next == StartOk \/ StartFails \/ Deliver \/ Shutdown

Spec == Init /\ [][Next]_vars

(***************************************************************************)
(* The transform functions on their own: a ConfiguredDevice and a reading  *)
(* of any kind are drawn, and the kind's transform function is applied.    *)
(***************************************************************************)
InitT ==
  /\ pc = "start"
  /\ exit_cause = ""
  /\ known_devices = [a \in Addresses |-> ""]
  /\ buffer = <<>>
  /\ stdout = <<>>
  /\ result = ""
  /\ now = 0
  /\ delivered = <<>>
  /\ t_cfg \in CfgDevices
  /\ t_data \in UNION {Readings(k) : k \in HandledKinds}
  /\ t_values = <<>>
  /\ t_done = FALSE

ApplyTransform ==
  /\ ~t_done
  /\ t_values' = Transform(t_data.kind, [address |-> t_cfg.mac], t_cfg, t_data, t_cfg.id)
  /\ t_done' = TRUE
  /\ UNCHANGED << t_cfg, t_data >>
  /\ UNCHANGED progVars

NextT == ApplyTransform

SpecT == InitT /\ [][NextT]_vars

(***************************************************************************)
(* Shared vocabulary of the properties.                                    *)
(***************************************************************************)
Present(v) == IF v # None THEN 1 ELSE 0

Both(v, w) == IF v # None /\ w # None THEN 1 ELSE 0

\* how many entries the primary device contributes, counted from the reading
BatteryPrimaryCount(r) ==
  Present(r.consumed_ah) + Present(r.soc) + Present(r.remaining_mins)
    + Present(r.current) + Present(r.voltage) + Both(r.voltage, r.current)

MeterPrimaryCount(r) == Present(r.current) + Present(r.voltage) + Both(r.voltage, r.current)

LynxPrimaryCount(r) == BatteryPrimaryCount(r) + Present(r.battery_temperature)

SecondaryVoltagePath(cfg) == <<"electrical", "batteries", cfg.secondary_battery.s, "voltage">>

TemperaturePath(id) == <<"electrical", "batteries", id, "temperature">>

CountPath(vals, p) == Cardinality({i \in DOMAIN vals : vals[i].path = p})

StartsWith(path, prefix) ==
  Len(path) >= Len(prefix) /\ SubSeq(path, 1, Len(prefix)) = prefix

PV(p, v) == [path |-> p, value |-> Num(v)]

\* the category table as the design states it
FamilyPrefix(meter_type, id) ==
  CASE meter_type \in {En("GENERIC_LOAD"), En("FRIDGE"), En("WATER_PUMP"), En("BILGE_PUMP"),
                       En("DC_SYSTEM"), En("WATER_HEATER"), En("ELECTRIC_DRIVE")}
         -> <<"electrical", "dcload", id>>
    [] meter_type = En("SOLAR_CHARGER") -> <<"electrical", "solar", id>>
    [] meter_type \in {En("WIND_CHARGER"), En("SHAFT_GENERATOR"), En("FUEL_CELL"),
                       En("WATER_GENERATOR"), En("DC_DC_CHARGER"), En("AC_CHARGER"),
                       En("GENERIC_SOURCE")}
         -> <<"electrical", "chargers", id>>
    [] meter_type = En("ALTERNATOR") -> <<"electrical", "alternators", id>>
    [] meter_type = En("INVERTER") -> <<"electrical", "inverters", id, "dc">>
    [] OTHER -> <<"electrical", "batteries", id>>

Decodable(frame) ==
  /\ Lower(frame.bl_device.address) \in DOMAIN devices
  /\ frame.raw_data.model \in HandledKinds
  /\ ~frame.raw_data.malformed

LineOf(i) == stdout[i].updates[1]

(***************************************************************************)
(* C1: the supervisor never reaches a terminated state on its own: a       *)
(* transport failure is followed by a backoff and a fresh session, so the  *)
(* process is only ever stopped from outside.                              *)
(***************************************************************************)
C1_SupervisorNeverTerminatesOnItsOwn == pc = "exited" => exit_cause = "signal"

(***************************************************************************)
(* C2: no per-frame failure propagates out of callback: every callback     *)
(* returns normally.                                                       *)
(***************************************************************************)
C2_NoFailureEscapesCallback == result # "raised"

(***************************************************************************)
(* C3: no PathValue returned by a transform function has a None value.     *)
(***************************************************************************)
C3_NoNullValues ==
  t_done => \A i \in DOMAIN t_values : t_values[i].value # None

(***************************************************************************)
(* C4: the lines on standard output are exactly one delta per delivered    *)
(* frame that came from a registered address and decoded to a known kind,  *)
(* in arrival order (the i-th line is the delta of the i-th such frame:    *)
(* its source address and the time of its arrival); nothing stays          *)
(* unflushed after a callback; and a callback writes at most one line.     *)
(***************************************************************************)
C4_OneDeltaPerDecodableFrameInOrder ==
  LET good == {i \in DOMAIN delivered : Decodable(delivered[i])}
  IN  /\ buffer = <<>>
      /\ Len(stdout) = Cardinality(good)
      /\ Len(stdout) <= Len(delivered)
      /\ \A i \in DOMAIN stdout :
           /\ LineOf(i).timestamp.utc \in good
           /\ LineOf(i).source.src = delivered[LineOf(i).timestamp.utc].bl_device.address
           /\ \A j \in DOMAIN stdout :
                i < j => LineOf(i).timestamp.utc < LineOf(j).timestamp.utc

\* two deltas written, from two different devices, after a frame each
C4_Witness ==
  /\ Len(stdout) = 2
  /\ LineOf(1).source.src # LineOf(2).source.src
  /\ LineOf(1).source.src = "AA:01"

(***************************************************************************)
(* C5 as stated: for device "house" and the BatteryMonitor reading         *)
(* voltage 12.6, current -3.2, soc 87.5, consumed 10.0 Ah, 240 minutes     *)
(* remaining and no auxiliary input, the values are voltage, current,      *)
(* power, stateOfCharge, dischargeSinceFull, timeRemaining, in that order. *)
(***************************************************************************)
C5_Scenario ==
  /\ t_done
  /\ t_cfg.id = "house"
  /\ t_data.kind = "BatteryMonitorData"
  /\ t_data.voltage = Num(12600)
  /\ t_data.current = Num(-3200)
  /\ t_data.soc = Num(87500)
  /\ t_data.consumed_ah = Num(10000)
  /\ t_data.remaining_mins = Num(240000)
  /\ t_data.aux_mode = En("DISABLED")

C5_ValuesVoltageFirst ==
  C5_Scenario =>
    t_values =
      << PV(<<"electrical", "batteries", "house", "voltage">>, 12600),
         PV(<<"electrical", "batteries", "house", "current">>, -3200),
         PV(<<"electrical", "batteries", "house", "power">>, -40320),
         PV(<<"electrical", "batteries", "house", "capacity", "stateOfCharge">>, 875),
         PV(<<"electrical", "batteries", "house", "capacity", "dischargeSinceFull">>, 36000000),
         PV(<<"electrical", "batteries", "house", "capacity", "timeRemaining">>, 14400000) >>

(***************************************************************************)
(* C5 as amended: in that scenario the values are exactly these six, in    *)
(* the order dischargeSinceFull 36000, stateOfCharge 0.875, timeRemaining  *)
(* 14400, current -3.2, power -40.32, voltage 12.6; there is no            *)
(* temperature entry and no secondary-battery entry.                       *)
(***************************************************************************)
C5_ValuesInDictOrder ==
  C5_Scenario =>
    t_values =
      << PV(<<"electrical", "batteries", "house", "capacity", "dischargeSinceFull">>, 36000000),
         PV(<<"electrical", "batteries", "house", "capacity", "stateOfCharge">>, 875),
         PV(<<"electrical", "batteries", "house", "capacity", "timeRemaining">>, 14400000),
         PV(<<"electrical", "batteries", "house", "current">>, -3200),
         PV(<<"electrical", "batteries", "house", "power">>, -40320),
         PV(<<"electrical", "batteries", "house", "voltage">>, 12600) >>

C5_Witness == C5_Scenario /\ Len(t_values) = 6

(***************************************************************************)
(* C6: a BatteryMonitor reading in starter-voltage mode, for a device that *)
(* declares a secondary battery B, gives the primary device's entries and  *)
(* exactly one more, whose path is electrical.batteries.B.voltage (the     *)
(* only entry with that path, unless B is the device's own id), and no     *)
(* entry for the primary device's temperature path.                        *)
(***************************************************************************)
C6_Case ==
  /\ t_done
  /\ t_data.kind = "BatteryMonitorData"
  /\ t_data.aux_mode = En("STARTER_VOLTAGE")
  /\ Truthy(t_cfg.secondary_battery)

C6_StarterVoltageRemap ==
  C6_Case =>
    /\ Len(t_values) = BatteryPrimaryCount(t_data) + 1
    /\ t_values[Len(t_values)].path = SecondaryVoltagePath(t_cfg)
    /\ t_cfg.secondary_battery.s # t_cfg.id =>
         CountPath(t_values, SecondaryVoltagePath(t_cfg)) = 1
    /\ CountPath(t_values, TemperaturePath(t_cfg.id)) = 0

\* the reading carries a temperature too, and the primary block is not empty
C6_Witness ==
  /\ C6_Case
  /\ t_data.temperature # None
  /\ t_data.starter_voltage # None
  /\ Len(t_values) = 7

(***************************************************************************)
(* C7 as stated: for BatteryMonitor, DcEnergyMeter and LynxSmartBMS alike, *)
(* starter-voltage mode with a declared secondary battery gives one extra  *)
(* entry under the secondary battery's voltage path, and temperature mode  *)
(* gives the temperature (when the reading has one) under a temperature    *)
(* path and no extra entry.                                                *)
(***************************************************************************)
C7_PrimaryCount ==
  CASE t_data.kind = "BatteryMonitorData" -> BatteryPrimaryCount(t_data)
    [] t_data.kind = "DcEnergyMeterData" -> MeterPrimaryCount(t_data)
    [] t_data.kind = "LynxSmartBMSData" -> BatteryPrimaryCount(t_data)

C7_Temperature ==
  IF t_data.kind = "LynxSmartBMSData" THEN t_data.battery_temperature ELSE t_data.temperature

C8_CategoryTable ==
  /\ LoadMeterTypes \cap ChargerMeterTypes = {}
  /\ {"SOLAR_CHARGER", "ALTERNATOR", "INVERTER"} \cap (LoadMeterTypes \cup ChargerMeterTypes) = {}
  /\ (t_done /\ t_data.kind = "DcEnergyMeterData") =>
       /\ Len(t_values) >= MeterPrimaryCount(t_data)
       /\ \A i \in 1..MeterPrimaryCount(t_data) :
            /\ StartsWith(t_values[i].path, FamilyPrefix(t_data.meter_type, t_cfg.id))
            /\ Len(t_values[i].path) = Len(FamilyPrefix(t_data.meter_type, t_cfg.id)) + 1

C8_Witness ==
  /\ t_done
  /\ t_data.kind = "DcEnergyMeterData"
  /\ t_data.meter_type = En("ALTERNATOR")
  /\ Len(t_values) >= 3
  /\ t_values[1].path = <<"electrical", "alternators", t_cfg.id, "current">>

(***************************************************************************)
(* C9: every delta line written to standard output has a non-empty values  *)
(* list.                                                                   *)
(***************************************************************************)
C9_NoEmptyDelta == \A i \in DOMAIN stdout : LineOf(i).values # <<>>

(***************************************************************************)
(* C10: in the output of transform_dc_energy_meter_data every entry of the *)
(* primary device (all entries, but for the secondary-battery voltage that *)
(* starter-voltage mode appends last) has a path under the one category    *)
(* prefix selected from the meter type.                                    *)
(***************************************************************************)
C10_SinglePrefixPerFrame ==
  (t_done /\ t_data.kind = "DcEnergyMeterData") =>
    \A i \in DOMAIN t_values :
      \/ StartsWith(t_values[i].path, FamilyPrefix(t_data.meter_type, t_cfg.id))
      \/ /\ i = Len(t_values)
         /\ t_data.aux_mode = En("STARTER_VOLTAGE")
         /\ Truthy(t_cfg.secondary_battery)

====
